---- MODULE Spec2Model ----
(***************************************************************************)
(* Model of src/src/4_simulate.py: the weekly picker (pick_team), the      *)
(* season simulator (simulate_season), the season loader (load_season)     *)
(* and the multi-season runner (simulate_all_seasons).                     *)
(*                                                                         *)
(* Data representation                                                     *)
(*   - a nullable number (a pandas float cell) is a sequence: <<>> is NaN, *)
(*     <<n>> is the number n;                                              *)
(*   - a text is a sequence of one-character strings;                      *)
(*   - a slate (DataFrame) is a sequence of rows, in row order;            *)
(*   - a season (dict) is a function from week numbers to slates;          *)
(*   - a score is NaN or the exact rational num/den.  Arithmetic is exact: *)
(*     the rounding of IEEE doubles is not modelled.                       *)
(***************************************************************************)
EXTENDS Integers, Sequences, FiniteSets, TLC

VARIABLES
    season,            \* simulate_season: the season argument
    pc,                \* simulate_season: position in the function
    idx,               \* simulate_season: enumerate index of the week loop
    used_teams,        \* simulate_season: set of picked teams
    survival_history,  \* simulate_season: list of pick records
    picked,            \* simulate_season: (team, prob) returned by pick_team
    picker_calls,      \* pick_team calls made by the running simulate_season
    no_pick_weeks,     \* stdout: weeks of the "No available picks" lines
    rpc,               \* simulate_all_seasons: position in the function
    year,              \* simulate_all_seasons: the loop variable
    results,           \* simulate_all_seasons: dict year -> history
    no_files_years     \* stdout: years of the "No files found" lines

simvars == <<season, pc, idx, used_teams, survival_history, picked,
             picker_calls, no_pick_weeks>>

runvars == <<rpc, year, results, no_files_years>>

vars == <<simvars, runvars>>

----------------------------------------------------------------------------
(* Bounds of the model *)

\* largest number of weeks a season passed to simulate_season has
MaxWeeks == 2

\* largest number of files the provider holds for one year
MaxFiles == 1

\* number of years of the configured range (the program's range has 15)
NumYears == 2

\* the week numbers a season may use (gaps are possible)
WeekNumbers == {1, 2, 4}

Teams == {"A", "B"}

NaN == <<>>

\* seasons given to simulate_season
WinProbs == {NaN, <<70>>}

FutureVals == {<<1>>}

\* outcome cells: a padded lower-case win, a loss
Outcomes == { <<" ", "w">>, <<"L">> }

\* inputs of pick_team
PickWinProbs == {NaN, <<0>>, <<70>>, <<90>>}

PickFutureVals == {NaN, <<1>>}

PickFutureWinProbs == {NaN, <<70>>, <<95>>}

\* files of the provider: week part of the file name, cells of the csv
WeekStrs == { <<"1">>, <<"0", "2">>, <<"0">> }

CsvTeams == {"A"}

CsvWinProbs == {NaN, <<70>>}

\* win cells of a csv: an integer, an empty cell, a padded text
CsvWins == { <<"1">>, <<>>, <<"w", " ">> }

----------------------------------------------------------------------------
(* Texts *)

UpperChar(c) ==
    CASE c = "w" -> "W"
      [] c = "y" -> "Y"
      [] c = "l" -> "L"
      [] c = "n" -> "N"
      [] c = "a" -> "A"
      [] OTHER   -> c

Upper(s) == [i \in 1..Len(s) |-> UpperChar(s[i])]

RECURSIVE LStrip(_)
LStrip(s) == IF s # <<>> /\ Head(s) = " " THEN LStrip(Tail(s)) ELSE s

RECURSIVE RStrip(_)
RStrip(s) ==
    IF s # <<>> /\ s[Len(s)] = " " THEN RStrip(SubSeq(s, 1, Len(s) - 1)) ELSE s

Strip(s) == RStrip(LStrip(s))

SurvivalVocabulary ==
    { <<"W">>, <<"W","I","N">>, <<"W","O","N">>, <<"T","R","U","E">>,
      <<"T">>, <<"1">>, <<"Y","E","S">>, <<"Y">> }

----------------------------------------------------------------------------
(* Slates and seasons *)

TeamsOf(df) == {df[i].team : i \in 1..Len(df)}

\* a slate: a row sequence in which a team occurs once
UniqueTeams(df) == \A i, j \in 1..Len(df) : df[i].team = df[j].team => i = j

Rows == [team : Teams, win_probability : WinProbs, future_val : FutureVals,
         win : Outcomes]

Slates ==
    {df \in UNION {[1..n -> Rows] : n \in 0..Cardinality(Teams)} : UniqueTeams(df)}

\* the seasons simulate_season is run on
Seasons ==
    UNION {[ws -> Slates] :
             ws \in {w \in SUBSET WeekNumbers : Cardinality(w) <= MaxWeeks}}

\* the inputs pick_team is called on: a current slate (week 1) and the slates
\* of the later weeks; pick_team reads no win cell and no future future_val
PickRows == [team : Teams, win_probability : PickWinProbs,
             future_val : PickFutureVals, win : {<<"L">>}]

PickFutureRows == [team : Teams, win_probability : PickFutureWinProbs,
                   future_val : {<<1>>}, win : {<<"L">>}]

PickSlates ==
    {df \in UNION {[1..n -> PickRows] : n \in 0..Cardinality(Teams)} :
        UniqueTeams(df)}

PickFutureSlates ==
    {df \in UNION {[1..n -> PickFutureRows] : n \in 0..Cardinality(Teams)} :
        UniqueTeams(df)}

PickFutures == UNION {[1..n -> PickFutureSlates] : n \in 0..(MaxWeeks - 1)}

----------------------------------------------------------------------------
(* pick_team *)

\* the position of the first row of df whose team is t
FirstRowOf(df, t) == CHOOSE i \in 1..Len(df) :
    /\ df[i].team = t
    /\ \A j \in 1..(i - 1) : df[j].team # t

\* future_value of lines 53-56: the sum of the team's win_probability over the
\* future slates in which it appears; NaN as soon as one of them is NaN
RECURSIVE FutureValue(_, _)
FutureValue(team, future_weeks) ==
    IF future_weeks = <<>> THEN <<0>>
    ELSE LET fweek == Head(future_weeks)
             rest  == FutureValue(team, Tail(future_weeks))
         IN  IF team \in TeamsOf(fweek)
             THEN LET p == fweek[FirstRowOf(fweek, team)].win_probability
                  IN  IF p = NaN \/ rest = NaN THEN NaN ELSE <<p[1] + rest[1]>>
             ELSE rest

\* mutant of Score: the discount of line 58 left out
ScoreNoDiscount(row, future_weeks) ==
    LET fv == FutureValue(row.team, future_weeks)
    IN  IF row.win_probability = NaN \/ row.future_val = NaN \/ fv = NaN
        THEN [nan |-> TRUE, num |-> 0, den |-> 1]
        ELSE [nan |-> FALSE,
              num |-> 100 * row.win_probability[1] * row.future_val[1],
              den |-> 100]

\* score of lines 47 and 58: win_probability * future_val * (1 / (1 + fv/100)),
\* kept as the fraction (100 * wp * fval) / (100 + fv); NaN if any operand is
Score(row, future_weeks) ==
    LET fv == FutureValue(row.team, future_weeks)
    IN  IF row.win_probability = NaN \/ row.future_val = NaN \/ fv = NaN
        THEN [nan |-> TRUE, num |-> 0, den |-> 1]
        ELSE [nan |-> FALSE,
              num |-> 100 * row.win_probability[1] * row.future_val[1],
              den |-> 100 + fv[1]]

\* a > b on non-NaN scores (denominators are positive)
ScoreGreater(a, b) == a.num * b.den > b.num * a.den

\* mutant of Eligible: the filter of line 42 left out
EligibleAll(week_df, used) == 1..Len(week_df)

\* line 42: the positions of the rows whose team is not used
Eligible(week_df, used) == {i \in 1..Len(week_df) : week_df[i].team \notin used}

\* mutant of IdxMax: the last position holding the largest score
IdxMaxLast(week_df, cand, future_weeks) ==
    LET ok == {i \in cand : ~Score(week_df[i], future_weeks).nan}
    IN  CHOOSE i \in ok :
          /\ \A j \in ok : ~ScoreGreater(Score(week_df[j], future_weeks),
                                         Score(week_df[i], future_weeks))
          /\ \A j \in ok : j > i =>
                ScoreGreater(Score(week_df[i], future_weeks),
                             Score(week_df[j], future_weeks))

\* line 60, Series.idxmax: the first position holding the largest non-NaN score
IdxMax(week_df, cand, future_weeks) ==
    LET ok == {i \in cand : ~Score(week_df[i], future_weeks).nan}
    IN  CHOOSE i \in ok :
          /\ \A j \in ok : ~ScoreGreater(Score(week_df[j], future_weeks),
                                         Score(week_df[i], future_weeks))
          /\ \A j \in ok : j < i =>
                ScoreGreater(Score(week_df[i], future_weeks),
                             Score(week_df[j], future_weeks))

\* pick_team: "none" for (None, None); "raise" when idxmax has no non-NaN score
\* to return (df.loc then fails); else the picked team and its win_probability
pick_team(week_df, used, future_weeks) ==
    LET cand == Eligible(week_df, used)
    IN  IF cand = {} THEN [kind |-> "none", team |-> "", prob |-> NaN]
        ELSE IF \A i \in cand : Score(week_df[i], future_weeks).nan
        THEN [kind |-> "raise", team |-> "", prob |-> NaN]
        ELSE LET b == IdxMax(week_df, cand, future_weeks)
             IN  [kind |-> "pick", team |-> week_df[b].team,
                  prob |-> week_df[b].win_probability]

----------------------------------------------------------------------------
(* simulate_season *)

\* mutant of SortedSeq: the weeks in descending order
RECURSIVE SortedDescending(_)
SortedDescending(S) ==
    IF S = {} THEN <<>>
    ELSE LET m == CHOOSE x \in S : \A y \in S : x >= y
         IN  <<m>> \o SortedDescending(S \ {m})

RECURSIVE SortedSeq(_)
SortedSeq(S) ==
    IF S = {} THEN <<>>
    ELSE LET m == CHOOSE x \in S : \A y \in S : x <= y
         IN  <<m>> \o SortedSeq(S \ {m})

\* line 71
available_weeks == SortedSeq(DOMAIN season)

\* line 77: the slates of available_weeks[idx + 1:], idx counted from 0
FutureWeeks(s, i) ==
    LET aw == SortedSeq(DOMAIN s)
    IN  [k \in 1..(Len(aw) - (i + 1)) |-> s[aw[i + 1 + k]]]

CurrentWeek == available_weeks[idx + 1]

CurrentDf == season[CurrentWeek]

NoPick == [kind |-> "none", team |-> "", prob |-> NaN]

\* mutant of Survived: the strip() of line 85 left out
SurvivedNoStrip(df, team) ==
    LET outcome == df[FirstRowOf(df, team)].win
        s == Upper(outcome)
    IN  s \in SurvivalVocabulary

\* lines 84-86
Survived(df, team) ==
    LET outcome == df[FirstRowOf(df, team)].win
        s == Strip(Upper(outcome))
    IN  s \in SurvivalVocabulary

\* lines 65-69: fresh state; an empty season returns at once
Enter ==
    /\ pc = "start"
    /\ used_teams' = {}
    /\ survival_history' = <<>>
    /\ pc' = IF DOMAIN season = {} THEN "returned" ELSE "loop"
    /\ UNCHANGED <<season, idx, picked, picker_calls, no_pick_weeks, runvars>>

\* mutant of LoopPick: a week without a pick is skipped (continue for break)
LoopPickContinue ==
    /\ pc = "loop"
    /\ idx < Len(available_weeks)
    /\ LET r == pick_team(CurrentDf, used_teams, FutureWeeks(season, idx))
       IN  /\ picked' = r
           /\ pc' = CASE r.kind = "none"  -> "loop"
                      [] r.kind = "raise" -> "raised"
                      [] OTHER            -> "record"
           /\ idx' = IF r.kind = "none" THEN idx + 1 ELSE idx
           /\ no_pick_weeks' = IF r.kind = "none"
                                THEN no_pick_weeks \cup {CurrentWeek}
                                ELSE no_pick_weeks
    /\ picker_calls' = picker_calls + 1
    /\ UNCHANGED <<season, used_teams, survival_history, runvars>>

\* the rows of week_df whose team is not used, in row order
RECURSIVE UnusedRows(_, _)
UnusedRows(week_df, used) ==
    IF week_df = <<>> THEN <<>>
    ELSE (IF Head(week_df).team \in used THEN <<>> ELSE <<Head(week_df)>>)
         \o UnusedRows(Tail(week_df), used)

\* mutant of LoopPick: pick_team filters the caller's slate in place instead
\* of working on the copy of line 42
LoopPickInPlace ==
    /\ pc = "loop"
    /\ idx < Len(available_weeks)
    /\ LET r == pick_team(CurrentDf, used_teams, FutureWeeks(season, idx))
       IN  /\ picked' = r
           /\ pc' = CASE r.kind = "none"  -> "returned"
                      [] r.kind = "raise" -> "raised"
                      [] OTHER            -> "record"
           /\ no_pick_weeks' = IF r.kind = "none"
                                THEN no_pick_weeks \cup {CurrentWeek}
                                ELSE no_pick_weeks
    /\ season' = [season EXCEPT ![CurrentWeek] = UnusedRows(CurrentDf, used_teams)]
    /\ picker_calls' = picker_calls + 1
    /\ UNCHANGED <<idx, used_teams, survival_history, runvars>>

\* lines 73-82: the next week of the loop, the call of pick_team
LoopPick ==
    /\ pc = "loop"
    /\ idx < Len(available_weeks)
    /\ LET r == pick_team(CurrentDf, used_teams, FutureWeeks(season, idx))
       IN  /\ picked' = r
           /\ pc' = CASE r.kind = "none"  -> "returned"
                      [] r.kind = "raise" -> "raised"
                      [] OTHER            -> "record"
           /\ no_pick_weeks' = IF r.kind = "none"
                                THEN no_pick_weeks \cup {CurrentWeek}
                                ELSE no_pick_weeks
    /\ picker_calls' = picker_calls + 1
    /\ UNCHANGED <<season, idx, used_teams, survival_history, runvars>>

\* lines 84-93: classify the outcome, append the record
Record ==
    /\ pc = "record"
    /\ survival_history' = Append(survival_history,
          [week |-> CurrentWeek, team |-> picked.team,
           win_probability |-> picked.prob,
           survived |-> Survived(CurrentDf, picked.team)])
    /\ pc' = "add"
    /\ UNCHANGED <<season, idx, used_teams, picked, picker_calls,
                   no_pick_weeks, runvars>>

\* mutant of AddUsed: the test of line 96 inverted
AddUsedBreakOnSurvival ==
    /\ pc = "add"
    /\ used_teams' = used_teams \cup {picked.team}
    /\ IF survival_history[Len(survival_history)].survived
       THEN pc' = "returned" /\ idx' = idx
       ELSE pc' = "loop" /\ idx' = idx + 1
    /\ UNCHANGED <<season, survival_history, picked, picker_calls,
                   no_pick_weeks, runvars>>

\* mutant of AddUsed: the break of lines 96-97 left out
AddUsedNoBreak ==
    /\ pc = "add"
    /\ used_teams' = used_teams \cup {picked.team}
    /\ pc' = "loop"
    /\ idx' = idx + 1
    /\ UNCHANGED <<season, survival_history, picked, picker_calls,
                   no_pick_weeks, runvars>>

\* lines 95-97: mark the team used; break on elimination
AddUsed ==
    /\ pc = "add"
    /\ used_teams' = used_teams \cup {picked.team}
    /\ IF survival_history[Len(survival_history)].survived
       THEN pc' = "loop" /\ idx' = idx + 1
       ELSE pc' = "returned" /\ idx' = idx
    /\ UNCHANGED <<season, survival_history, picked, picker_calls,
                   no_pick_weeks, runvars>>

\* line 73 exhausted, line 99
LoopEnd ==
    /\ pc = "loop"
    /\ idx >= Len(available_weeks)
    /\ pc' = "returned"
    /\ UNCHANGED <<season, idx, used_teams, survival_history, picked,
                   picker_calls, no_pick_weeks, runvars>>

\* simulate_season is still executing
Running == pc \in {"start", "loop", "record", "add"}

\* the ways simulate_season reaches line 99: the break of line 97 (ELIMINATED),
\* the break of line 82 (STALLED_NO_PICK), the end of the weeks, also of an
\* empty season at line 69 (SURVIVED_ALL)
EndedEliminated ==
    pc = "returned" /\ no_pick_weeks = {} /\ idx < Len(available_weeks)

EndedNoPick == pc = "returned" /\ no_pick_weeks # {}

EndedAllWeeks == pc = "returned" /\ idx = Len(available_weeks)

\* one call of simulate_season on a season of the input set
RunnerOff ==
    /\ rpc = "off"
    /\ year = 0
    /\ results = <<>>
    /\ no_files_years = {}

Init ==
    /\ season \in Seasons
    /\ pc = "start"
    /\ idx = 0
    /\ used_teams = {}
    /\ survival_history = <<>>
    /\ picked = NoPick
    /\ picker_calls = 0
    /\ no_pick_weeks = {}
    /\ RunnerOff

Next == Enter \/ LoopPick \/ Record \/ AddUsed \/ LoopEnd

Spec == Init /\ [][Next]_vars

----------------------------------------------------------------------------
(* Properties of simulate_season, checked under Spec *)

\* the weeks of the season before week w
WeeksBefore(w) == {v \in DOMAIN season : v < w}

\* C1: no team identifier appears in more than one record of the history, at
\* every step of simulate_season
C1_NoReuse ==
    \A i, j \in 1..Len(survival_history) :
        survival_history[i].team = survival_history[j].team => i = j

\* C1 witness: a second pick was made in a week whose slate also lists the
\* team picked in the first week
C1_Witness ==
    /\ Len(survival_history) = 2
    /\ survival_history[1].team \in TeamsOf(season[survival_history[2].week])

\* C2: the history has at most as many records as the season has weeks, and
\* a record with survived = FALSE is the last record
C2_BoundedAndLastFalse ==
    /\ Len(survival_history) <= Cardinality(DOMAIN season)
    /\ \A i \in 1..Len(survival_history) :
          ~survival_history[i].survived => i = Len(survival_history)

\* C2 witness: a returned history that ends with an elimination in the second
\* week, after a survived first week
C2_Witness ==
    /\ pc = "returned"
    /\ Len(survival_history) = 2
    /\ survival_history[1].survived
    /\ ~survival_history[2].survived

\* C3 as stated: when the simulation stops without a pick at a week W whose
\* slate lists teams, all of them used, the history has exactly W - 1 records
C3_Original ==
    \A w \in no_pick_weeks :
        TeamsOf(season[w]) # {} => Len(survival_history) = w - 1

\* C3 amended: a week W reached with every team of its slate already used
\* ends the simulation without a pick: nothing is appended, and the history
\* has exactly one record for each week of the season before W
C3_StallAtUsedUpWeek ==
    [][ (/\ pc = "loop"
         /\ idx < Len(available_weeks)
         /\ TeamsOf(CurrentDf) \subseteq used_teams)
        => (/\ pc' = "returned"
            /\ no_pick_weeks' = {CurrentWeek}
            /\ survival_history' = survival_history
            /\ Len(survival_history') = Cardinality(WeeksBefore(CurrentWeek))
            /\ \A i \in 1..Len(survival_history') :
                  survival_history'[i].week < CurrentWeek) ]_vars

\* C3 witness: stopped without a pick at a week after a gap in the week
\* numbers, with a pick made before it
C3_Witness ==
    /\ pc = "returned"
    /\ Len(survival_history) >= 1
    /\ \E w \in no_pick_weeks :
          /\ TeamsOf(season[w]) # {}
          /\ Len(survival_history) < w - 1

\* the claim's reading of an outcome text, stated without the code's upper()
\* and strip(): blanks around a word of the vocabulary, in either case
C6_Letters ==
    { <<"w", "W">>, <<"i", "I">>, <<"n", "N">>, <<"o", "O">>, <<"t", "T">>,
      <<"r", "R">>, <<"u", "U">>, <<"e", "E">>, <<"y", "Y">>, <<"s", "S">> }

C6_Matches(c, d) == c = d \/ <<c, d>> \in C6_Letters

C6_Words ==
    { <<"W">>, <<"W","I","N">>, <<"W","O","N">>, <<"T","R","U","E">>,
      <<"T">>, <<"1">>, <<"Y","E","S">>, <<"Y">> }

C6_DenotesSurvival(text) ==
    \E v \in C6_Words : \E lead \in 0..Len(text) :
        /\ lead + Len(v) <= Len(text)
        /\ \A k \in 1..Len(text) :
              IF k > lead /\ k <= lead + Len(v)
              THEN C6_Matches(text[k], v[k - lead])
              ELSE text[k] = " "

\* C6: the survived flag of every record is TRUE exactly when the outcome
\* cell of the picked team in that week's slate, trimmed and upper-cased, is a
\* word of the survival vocabulary
C6_SurvivedIffVocabulary ==
    \A i \in 1..Len(survival_history) :
        LET rec == survival_history[i]
            df  == season[rec.week]
        IN  /\ rec.survived \in BOOLEAN
            /\ rec.survived <=> C6_DenotesSurvival(df[FirstRowOf(df, rec.team)].win)

\* C6 witness: a padded lower-case win was recorded as survived and a later
\* loss as an elimination
C6_Witness ==
    /\ Len(survival_history) = 2
    /\ survival_history[1].survived
    /\ season[survival_history[1].week]
          [FirstRowOf(season[survival_history[1].week],
                      survival_history[1].team)].win = <<" ", "w">>
    /\ ~survival_history[2].survived

\* C11: a call of pick_team changes neither the slates of the season (the
\* current one and the future ones) nor used_teams, whatever it returns;
\* used_teams changes only at line 95, by the picked team, once the record of
\* that team is the last of the history
C11_PickTeamNoSideEffects ==
    [][ /\ picker_calls' # picker_calls =>
              (season' = season /\ used_teams' = used_teams)
        /\ used_teams' # used_teams =>
              /\ pc = "add"
              /\ picker_calls' = picker_calls
              /\ survival_history' = survival_history
              /\ Len(survival_history) >= 1
              /\ survival_history[Len(survival_history)].team = picked.team
              /\ used_teams' = used_teams \cup {picked.team} ]_vars

\* C11 witness: pick_team returned a team, the team was added to used_teams,
\* and a later call returned the no-pick sentinel on a slate listing that team
C11_Witness ==
    /\ pc = "returned"
    /\ Len(survival_history) = 1
    /\ used_teams = {survival_history[1].team}
    /\ \E w \in no_pick_weeks : TeamsOf(season[w]) = used_teams

\* C12 as stated: simulate_season visits each week at most once, calls
\* pick_team at most once per week of the season, and when it stops it has
\* reached one of the terminal conditions eliminated, stalled without a pick,
\* all weeks survived
C12_EndsInTerminalCondition ==
    /\ idx <= Cardinality(DOMAIN season)
    /\ picker_calls <= idx + 1
    /\ picker_calls <= Cardinality(DOMAIN season)
    /\ ~Running => (EndedEliminated \/ EndedNoPick \/ EndedAllWeeks)

\* C13: of a returned history, the simulation ended eliminated exactly when
\* the last record has survived = FALSE, with all weeks survived exactly when
\* no record has survived = FALSE and there is a record for each week, and
\* stalled without a pick exactly when no record has survived = FALSE and
\* there are fewer records than weeks
C13_TerminalStateFromHistory ==
    pc = "returned" =>
        LET n == Len(survival_history)
            weeks == Cardinality(DOMAIN season)
            anyFalse == \E i \in 1..n : ~survival_history[i].survived
            lastFalse == n >= 1 /\ ~survival_history[n].survived
        IN  /\ EndedEliminated <=> lastFalse
            /\ EndedAllWeeks <=> (~anyFalse /\ n = weeks)
            /\ EndedNoPick <=> (~anyFalse /\ n < weeks)

\* C13 witness: eliminated in the last week of a two-week season, the history
\* being as long as the season
C13_Witness ==
    /\ EndedEliminated
    /\ Len(survival_history) = 2
    /\ Cardinality(DOMAIN season) = 2

\* the teams of the first n records of the history
TeamsOfRecords(n) == {survival_history[i].team : i \in 1..n}

\* C14: the k-th record of the history is of the k-th smallest week of the
\* season, so the records are in strictly increasing week order and skip no
\* week; used_teams is the set of the teams of the records, the last record
\* excepted between its append (line 88) and line 95
C14_WeekPrefixAndUsedTeams ==
    /\ \A k \in 1..Len(survival_history) :
          /\ survival_history[k].week \in DOMAIN season
          /\ Cardinality(WeeksBefore(survival_history[k].week)) = k - 1
    /\ \A i, j \in 1..Len(survival_history) :
          i < j => survival_history[i].week < survival_history[j].week
    /\ used_teams = TeamsOfRecords(IF pc = "add" THEN Len(survival_history) - 1
                                   ELSE Len(survival_history))

\* C14 witness: a returned history of two records over the weeks 2 and 4 of
\* a season without the weeks 1 and 3
C14_Witness ==
    /\ pc = "returned"
    /\ Len(survival_history) = 2
    /\ survival_history[1].week = 2
    /\ survival_history[2].week = 4
    /\ used_teams = {"A", "B"}

----------------------------------------------------------------------------
(* pick_team called on its own *)

\* one call pick_team(week_df, used_teams, future_weeks)
PickCall ==
    /\ pc = "call"
    /\ picked' = pick_team(CurrentDf, used_teams, FutureWeeks(season, idx))
    /\ pc' = "called"
    /\ UNCHANGED <<season, idx, used_teams, survival_history, picker_calls,
                   no_pick_weeks, runvars>>

InitPick ==
    /\ \E week_df \in PickSlates, future_weeks \in PickFutures :
          season = <<week_df>> \o future_weeks
    /\ used_teams \in SUBSET Teams
    /\ pc = "call"
    /\ idx = 0
    /\ survival_history = <<>>
    /\ picked = NoPick
    /\ picker_calls = 0
    /\ no_pick_weeks = {}
    /\ RunnerOff

NextPick == PickCall

SpecPick == InitPick /\ [][NextPick]_vars

----------------------------------------------------------------------------
(* Properties of pick_team, checked under SpecPick *)

\* the arguments of the call
ArgDf == CurrentDf

ArgFuture == FutureWeeks(season, idx)

ArgEligible == {i \in 1..Len(ArgDf) : ArgDf[i].team \notin used_teams}

\* the eligible rows with a computed (non-NaN) score that no other exceeds
ArgMaxRows ==
    {i \in ArgEligible :
        /\ ~Score(ArgDf[i], ArgFuture).nan
        /\ \A j \in ArgEligible :
              Score(ArgDf[j], ArgFuture).nan
              \/ ~ScoreGreater(Score(ArgDf[j], ArgFuture), Score(ArgDf[i], ArgFuture))}

\* C4: when two or more eligible teams share the maximum computed score,
\* pick_team returns the one among them that comes first in the slate
C4_TieFirstInRowOrder ==
    (pc = "called" /\ Cardinality(ArgMaxRows) >= 2) =>
        /\ picked.kind = "pick"
        /\ \E b \in ArgMaxRows :
              /\ ArgDf[b].team = picked.team
              /\ \A j \in ArgMaxRows : b <= j

\* C4 witness: a call with two eligible rows tied at a positive maximum
C4_Witness ==
    /\ pc = "called"
    /\ Cardinality(ArgMaxRows) >= 2
    /\ \E i \in ArgMaxRows : Score(ArgDf[i], ArgFuture).num > 0

\* a missing number read as 0
ZeroIfMissing(x) == IF x = NaN THEN 0 ELSE x[1]

\* future exposure with a missing future win_probability contributing 0
RECURSIVE ExposureZeroFilled(_, _)
ExposureZeroFilled(team, future_weeks) ==
    IF future_weeks = <<>> THEN 0
    ELSE LET fweek == Head(future_weeks)
         IN  (IF team \in TeamsOf(fweek)
              THEN ZeroIfMissing(fweek[FirstRowOf(fweek, team)].win_probability)
              ELSE 0)
             + ExposureZeroFilled(team, Tail(future_weeks))

\* the score of the specification: base_score * (1 / (1 + exposure / 100)),
\* a missing win_probability or future_val giving a base_score of 0
ScoreZeroFilled(row, future_weeks) ==
    [nan |-> FALSE,
     num |-> 100 * ZeroIfMissing(row.win_probability) * ZeroIfMissing(row.future_val),
     den |-> 100 + ExposureZeroFilled(row.team, future_weeks)]

\* C5 as stated: with an eligible team, pick_team does not fail on missing
\* numbers; it returns the first eligible row of the largest score, a missing
\* number counting as 0
C5_MissingCountsAsZero ==
    (pc = "called" /\ ArgEligible # {}) =>
        /\ picked.kind = "pick"
        /\ \E b \in ArgEligible :
              /\ ArgDf[b].team = picked.team
              /\ \A j \in ArgEligible :
                    /\ ~ScoreGreater(ScoreZeroFilled(ArgDf[j], ArgFuture),
                                     ScoreZeroFilled(ArgDf[b], ArgFuture))
                    /\ j < b => ScoreGreater(ScoreZeroFilled(ArgDf[b], ArgFuture),
                                             ScoreZeroFilled(ArgDf[j], ArgFuture))

\* base_score of a row with both numbers present
BaseScore(row) == row.win_probability[1] * row.future_val[1]

\* two eligible rows with computed scores: the same base_score, the second
\* with the larger summed future win probability
C8_SameBaseMoreExposure(i, j) ==
    /\ ~Score(ArgDf[i], ArgFuture).nan
    /\ ~Score(ArgDf[j], ArgFuture).nan
    /\ BaseScore(ArgDf[i]) = BaseScore(ArgDf[j])
    /\ FutureValue(ArgDf[i].team, ArgFuture)[1]
         < FutureValue(ArgDf[j].team, ArgFuture)[1]

\* C8 as stated: with the same base_score, the larger summed future win
\* probability gives the strictly smaller score
C8_Original ==
    pc = "called" =>
        \A i, j \in ArgEligible :
            C8_SameBaseMoreExposure(i, j) =>
                ScoreGreater(Score(ArgDf[i], ArgFuture), Score(ArgDf[j], ArgFuture))

\* C8 amended: with the same positive base_score, the larger summed future
\* win probability gives the strictly smaller score; with a base_score of 0
\* both scores are 0
C8_DiscountMonotone ==
    pc = "called" =>
        \A i, j \in ArgEligible :
            C8_SameBaseMoreExposure(i, j) =>
                IF BaseScore(ArgDf[i]) > 0
                THEN ScoreGreater(Score(ArgDf[i], ArgFuture), Score(ArgDf[j], ArgFuture))
                ELSE /\ Score(ArgDf[i], ArgFuture).num = 0
                     /\ Score(ArgDf[j], ArgFuture).num = 0

\* C8 witness: a call with two eligible rows of the same positive base_score
\* and different future exposure
C8_Witness ==
    /\ pc = "called"
    /\ \E i, j \in ArgEligible :
          C8_SameBaseMoreExposure(i, j) /\ BaseScore(ArgDf[i]) > 0

\* C9 as stated: with an eligible team, pick_team returns an eligible team
\* of the largest score win_probability * future_val * (1 / (1 + E / 100))
\* and that team's win_probability in the current slate
C9_ReturnsMaxScore ==
    (pc = "called" /\ ArgEligible # {}) =>
        /\ picked.kind = "pick"
        /\ \E b \in ArgEligible :
              /\ ArgDf[b].team = picked.team
              /\ ArgDf[b].win_probability = picked.prob
              /\ \A j \in ArgEligible :
                    ~ScoreGreater(ScoreZeroFilled(ArgDf[j], ArgFuture),
                                  ScoreZeroFilled(ArgDf[b], ArgFuture))

----------------------------------------------------------------------------
(* load_season *)

Digits == {"0", "1", "2", "3", "4", "5", "6", "7", "8", "9"}

DigitVal(c) ==
    CASE c = "0" -> 0 [] c = "1" -> 1 [] c = "2" -> 2 [] c = "3" -> 3
      [] c = "4" -> 4 [] c = "5" -> 5 [] c = "6" -> 6 [] c = "7" -> 7
      [] c = "8" -> 8 [] OTHER -> 9

RECURSIVE LStripZeros(_)
LStripZeros(s) == IF s # <<>> /\ Head(s) = "0" THEN LStripZeros(Tail(s)) ELSE s

IsIntText(s) == s # <<>> /\ \A i \in 1..Len(s) : s[i] \in Digits

RECURSIVE IntOf(_)
IntOf(s) == IF s = <<>> THEN 0 ELSE 10 * IntOf(SubSeq(s, 1, Len(s) - 1)) + DigitVal(s[Len(s)])

\* line 23, int(week_str.lstrip("0")): fails on a text that is not a number
\* once its leading zeros are gone
WeekParses(week_str) == IsIntText(LStripZeros(week_str))

ParseWeek(week_str) == IntOf(LStripZeros(week_str))

\* line 24, pd.read_csv: the dtype of the win column
WinDtype(cells) ==
    IF cells # <<>> /\ \A i \in 1..Len(cells) : IsIntText(cells[i]) THEN "int64"
    ELSE IF \A i \in 1..Len(cells) : cells[i] = <<>> \/ IsIntText(cells[i])
    THEN "float64"
    ELSE "object"

\* the text of an integer: no leading zeros
IntText(s) == IF LStripZeros(s) = <<>> THEN <<"0">> ELSE LStripZeros(s)

\* line 27, astype(str) of one cell of a column of that dtype
AsTypeStr(cell, dtype) ==
    CASE dtype = "int64"   -> IntText(cell)
      [] dtype = "float64" -> IF cell = <<>> THEN <<"n", "a", "n">>
                              ELSE IntText(cell) \o <<".", "0">>
      [] OTHER             -> IF cell = <<>> THEN <<"n", "a", "n">> ELSE cell

\* lines 24-27: the DataFrame of a csv, its win column normalised
ReadCsv(cells) ==
    LET dtype == WinDtype([i \in 1..Len(cells) |-> cells[i].win])
    IN  [i \in 1..Len(cells) |->
            [cells[i] EXCEPT !.win = Strip(Upper(AsTypeStr(cells[i].win, dtype)))]]

CsvRows == [team : CsvTeams, win_probability : CsvWinProbs, future_val : {<<1>>},
            win : CsvWins]

CsvSlates ==
    {df \in UNION {[1..n -> CsvRows] : n \in 0..Cardinality(CsvTeams)} :
        UniqueTeams(df)}

Files == [week_str : WeekStrs, cells : CsvSlates]

\* what glob finds for one year: files of distinct names
FileSets ==
    UNION {{{[week_str |-> w, cells |-> g[w]] : w \in ws} : g \in [ws -> CsvSlates]} :
             ws \in {x \in SUBSET WeekStrs : Cardinality(x) <= MaxFiles}}

\* lines 19-29: the seasons the loop can build (the file read last wins a week)
LoadedSeasons(files) ==
    LET weeks == {ParseWeek(f.week_str) : f \in files}
    IN  {s \in [weeks -> {ReadCsv(f.cells) : f \in files}] :
            \A w \in weeks : \E f \in files :
                ParseWeek(f.week_str) = w /\ s[w] = ReadCsv(f.cells)}

----------------------------------------------------------------------------
(* simulate_all_seasons *)

FirstYear == 2010

LastYear == FirstYear + NumYears - 1

\* the call simulate_season(season) of line 108
CallSimulate(s) ==
    /\ season' = s
    /\ pc' = "start"
    /\ idx' = 0
    /\ picked' = NoPick
    /\ picker_calls' = 0
    /\ no_pick_weeks' = {}
    /\ UNCHANGED <<used_teams, survival_history>>

\* lines 105-108 with load_season returning: no files (lines 15-17) or a season
LoadSeason ==
    /\ rpc = "loop"
    /\ year <= LastYear
    /\ \E files \in FileSets :
          /\ \A f \in files : WeekParses(f.week_str)
          /\ \E s \in LoadedSeasons(files) : CallSimulate(s)
          /\ no_files_years' = IF files = {} THEN no_files_years \cup {year}
                                ELSE no_files_years
    /\ rpc' = "simulate"
    /\ UNCHANGED <<year, results>>

\* line 107 with load_season raising at line 23: nothing catches it
LoadRaise ==
    /\ rpc = "loop"
    /\ year <= LastYear
    /\ \E files \in FileSets : \E f \in files : ~WeekParses(f.week_str)
    /\ rpc' = "raised"
    /\ UNCHANGED <<simvars, year, results, no_files_years>>

\* mutant of RecordResult: an empty history is not recorded
RecordResultSkipEmpty ==
    /\ rpc = "simulate"
    /\ pc = "returned"
    /\ results' = IF survival_history = <<>> THEN results
                  ELSE (year :> survival_history) @@ results
    /\ year' = year + 1
    /\ rpc' = "loop"
    /\ pc' = "idle"
    /\ UNCHANGED <<season, idx, used_teams, survival_history, picked,
                   picker_calls, no_pick_weeks, no_files_years>>

\* lines 108-110: simulate_season returned
RecordResult ==
    /\ rpc = "simulate"
    /\ pc = "returned"
    /\ results' = (year :> survival_history) @@ results
    /\ year' = year + 1
    /\ rpc' = "loop"
    /\ pc' = "idle"
    /\ UNCHANGED <<season, idx, used_teams, survival_history, picked,
                   picker_calls, no_pick_weeks, no_files_years>>

\* line 108 with simulate_season raising: nothing catches it
SimulateRaise ==
    /\ rpc = "simulate"
    /\ pc = "raised"
    /\ rpc' = "raised"
    /\ pc' = "idle"
    /\ UNCHANGED <<season, idx, used_teams, survival_history, picked,
                   picker_calls, no_pick_weeks, year, results, no_files_years>>

\* line 111
ReturnResults ==
    /\ rpc = "loop"
    /\ year > LastYear
    /\ rpc' = "returned"
    /\ UNCHANGED <<simvars, year, results, no_files_years>>

InitRunner ==
    /\ season = <<>>
    /\ pc = "idle"
    /\ idx = 0
    /\ used_teams = {}
    /\ survival_history = <<>>
    /\ picked = NoPick
    /\ picker_calls = 0
    /\ no_pick_weeks = {}
    /\ rpc = "loop"
    /\ year = FirstYear
    /\ results = <<>>
    /\ no_files_years = {}

NextRunner ==
    \/ LoadSeason \/ LoadRaise
    \/ Enter \/ LoopPick \/ Record \/ AddUsed \/ LoopEnd
    \/ RecordResult \/ SimulateRaise \/ ReturnResults

SpecRunner == InitRunner /\ [][NextRunner]_vars

----------------------------------------------------------------------------
(* Properties of simulate_all_seasons, checked under SpecRunner *)

Years == FirstYear..LastYear

\* C7 as stated: a year whose loading or simulation fails does not keep the
\* other years of the range from being recorded in the result
C7_YearsIndependent ==
    rpc \in {"returned", "raised"} =>
        \A y \in Years : (rpc = "raised" /\ y = year) \/ y \in DOMAIN results

\* C10: simulate_season returns an empty history for a season without weeks,
\* without a call of pick_team and without an error; a year the provider has
\* no files for is recorded with an empty history, and the loop goes on
C10_EmptySeason ==
    /\ (pc \in {"loop", "returned", "raised"} /\ DOMAIN season = {}) =>
          /\ pc = "returned"
          /\ survival_history = <<>>
          /\ picker_calls = 0
    /\ \A y \in no_files_years :
          /\ ~(rpc = "raised" /\ year = y)
          /\ y < year => (y \in DOMAIN results /\ results[y] = <<>>)
          /\ y = year => (rpc = "simulate" /\ DOMAIN season = {})

\* C10 witness: a year without files was recorded with an empty history and
\* the next year's season, one with weeks, is being simulated
C10_Witness ==
    /\ rpc = "simulate"
    /\ DOMAIN season # {}
    /\ pc = "record"
    /\ (year - 1) \in no_files_years
    /\ (year - 1) \in DOMAIN results
    /\ results[year - 1] = <<>>

====
